---- MODULE Spec2Model ----
(***************************************************************************)
(* Flash Omni (src/index.tsx): the generation orchestrator of one browser  *)
(* tab (sessions, artifacts, the loading flag, the generation tasks started *)
(* by performGeneration), the voice-input transcription, and the           *)
(* replication of the session collection between tabs through              *)
(* localStorage ('omni-sessions') and its storage events, the duplex audio *)
(* session of handleLiveAPI, and the error analysis of the artifact card   *)
(* (src/unnamed/part_001).                                                 *)
(*                                                                         *)
(* React state is modelled as it is after a render: every event handler    *)
(* and every continuation of an async function runs to its next await in   *)
(* one step, its state updates are batched, and the effects that depend on *)
(* the changed state run in the same step.                                 *)
(***************************************************************************)
EXTENDS Integers, Sequences, FiniteSets, TLC

VARIABLES
    sessions,           \* [tab -> Seq(Session)]       useState<Session[]>      index.tsx:29
    isLoading,          \* [tab -> BOOLEAN]            useState<boolean>        index.tsx:33
    inputValue,         \* [tab -> STRING]             useState<string>         index.tsx:32
    sendIsLoading,      \* [tab -> BOOLEAN]  isLoading as captured by the memoized handleSendMessage (index.tsx:343-365)
    genMode,            \* [tab -> ArtifactType]       useState<ArtifactType>   index.tsx:43
    isThinkingEnabled,  \* [tab -> BOOLEAN]                                     index.tsx:46
    isCollabEnabled,    \* [tab -> BOOLEAN]                                     index.tsx:40
    tasks,              \* [tab -> Seq(Task)]  the performGeneration calls in flight, in start order
    transcribing,       \* [tab -> Nat]        the handleTranscribe calls in flight
    store,              \* localStorage['omni-sessions']: NoItem or a serialized collection
    inbox,              \* [tab -> Seq(value)] storage events dispatched to the tab, not yet handled
    nextId,             \* the ids generateId() has handed out so far
    tabs,               \* the open tabs; the per-tab variables are functions on the tabs opened
    presence,           \* localStorage['omni-presence']: [tab ids -> timestamp]
    now,                \* Date.now(), in seconds
    nextBeat,           \* [tab -> time] when the tab's heartbeat interval fires next (while isCollabEnabled)
    activeUsers,        \* [tab -> set of tab ids]     useState<string[]>       index.tsx:39
    presenceInbox,      \* [tab -> Seq(map)] storage events of 'omni-presence' dispatched to the tab, not yet handled
    isLiveActive,       \* BOOLEAN                     useState<boolean>        index.tsx:50
    lives,              \* Seq(Live)  the handleLiveAPI calls that passed the guard, in call order
    contexts,           \* Seq(time)  the playback AudioContexts created, each by the audio time of its creation; outputAudioContextRef.current is the last
    audioNow,           \* the time of the audio clock, in tenths of a second
    nextStartTime,      \* nextStartTimeRef.current                              index.tsx:57
    sources,            \* sourcesRef.current, as indices of nodes               index.tsx:58
    nodes,              \* Seq(Node)  the buffer sources started, in the order of their source.start calls
    decoding,           \* Seq(Call)  the onmessage calls suspended at await decodeAudioData, in call order
    received,           \* the messages onmessage has been called with so far
    interrupts,         \* Seq([msg, at])  the interruption signals handled: the message and the audio time
    card,               \* the artifact an ArtifactCard is rendered with
    analysis            \* what the card's useMemo hooks have computed for it

vars == <<sessions, isLoading, inputValue, sendIsLoading, genMode, isThinkingEnabled,
          isCollabEnabled, tasks, transcribing, store, inbox, nextId, tabs,
          presence, now, nextBeat, activeUsers, presenceInbox,
          isLiveActive, lives, contexts, audioNow, nextStartTime, sources, nodes,
          decoding, received, interrupts, card, analysis>>

\* the variables of the presence heartbeat
presenceVars == <<presence, now, nextBeat, activeUsers, presenceInbox>>

\* the variables of the duplex audio session
liveVars == <<isLiveActive, lives, contexts, audioNow, nextStartTime, sources, nodes,
              decoding, received, interrupts>>

\* the variables of the artifact card
cardVars == <<card, analysis>>

(***************************************************************************)
(* Bounds of the model.                                                    *)
(***************************************************************************)
MaxSessions == 2        \* sessions created in one behaviour, all tabs together
MaxTasks == 2           \* performGeneration calls in flight in one tab
MaxText == 2            \* tokens a stream has yielded when its last chunk arrives
MaxTranscribe == 1      \* handleTranscribe calls in flight in one tab
MaxInbox == 2           \* storage events waiting in one tab
MaxChunks == 3          \* chunks one stream yields
MaxNow == 16            \* seconds the clock runs
MaxPresenceInbox == 1   \* presence storage events waiting in one tab
MaxLives == 2           \* handleLiveAPI calls that pass the guard
MaxFrames == 3          \* audio frames one capture pipeline captures
MaxMessages == 4        \* messages the duplex sessions deliver
MaxDecoding == 2        \* onmessage calls suspended at one time
MaxAudioNow == 4        \* tenths of a second the audio clock runs

\* now - presence[id] < 10000, and setInterval(heartbeat, 3000), in seconds
StaleSeconds == 10
BeatSeconds == 3

(***************************************************************************)
(* Values.                                                                 *)
(***************************************************************************)
\* A field that the object does not have, and a field that is set to undefined.
\* Text is a sequence of tokens; these two are sequences no text equals.
Absent == <<"<absent>">>
Undefined == <<"<undefined>">>
Empty == <<>>

\* no card is rendered, and nothing is computed for it
NoCard == [status |-> "none", html |-> Empty, text |-> Absent]
NoAnalysis == [category |-> "none", actionLabel |-> "none", context |-> <<>>]

\* localStorage.getItem of a key that is not stored returns null.
NoItem == [stored |-> FALSE, value |-> <<>>]
Item(blob) == [stored |-> TRUE, value |-> blob]

ArtifactType == {"ui", "image", "video", "chat", "vision"}

\* genMode.toUpperCase()
ToUpperCase(m) ==
    CASE m = "ui" -> "UI"
      [] m = "image" -> "IMAGE"
      [] m = "video" -> "VIDEO"
      [] m = "chat" -> "CHAT"
      [] m = "vision" -> "VISION"

\* String.prototype.trim on the input values of the model
Trim(v) == IF v = " " THEN "" ELSE v

EntityNotFound == "Requested entity was not found."

\* a check that finds the phrase in no message
IncludesNothing(msg) == FALSE

\* errorMsg.includes("Requested entity was not found")
IncludesEntityNotFound(msg) == msg = EntityNotFound

\* the diagnostic stored in html: the message, '' when the error has none
MessageText(msg) == IF msg = "" THEN Empty ELSE <<msg>>

\* the two fencing markers of the service: three backquotes followed by html, and three backquotes
FenceTokens == {"[fence-html]", "[fence]"}

\* text.replace(/<fence>html|<fence>/g, '')
RemoveFences(text) == SelectSeq(text, LAMBDA tok : tok \notin FenceTokens)

(***************************************************************************)
(* The Session Store: sessions and artifacts (src/unnamed/part_002).       *)
(* Session.timestamp (Date.now()) is read by nothing and is left out.      *)
(***************************************************************************)
\* The artifact handleSendMessage builds: the optional fields are not set.
NewArtifact(artifactId, mode, thinking) ==
    [id |-> artifactId,
     styleName |-> ToUpperCase(mode),
     html |-> Empty,
     type |-> mode,
     status |-> IF thinking THEN "thinking" ELSE "streaming",
     text |-> Absent,
     imageUrl |-> Absent,
     videoUrl |-> Absent,
     groundingLinks |-> Absent]

NewSession(sessionId, prompt, artifact) ==
    [id |-> sessionId, prompt |-> prompt, artifacts |-> <<artifact>>]

\* prev.map(s => s.id === sessionId ? {...s, artifacts: s.artifacts.map(a => a.id === artifactId ? F(a) : a)} : s)
MapArtifact(ss, sessionId, artifactId, F(_)) ==
    [i \in DOMAIN ss |->
        IF ss[i].id = sessionId
        THEN [ss[i] EXCEPT !.artifacts =
                [j \in DOMAIN ss[i].artifacts |->
                    IF ss[i].artifacts[j].id = artifactId
                    THEN F(ss[i].artifacts[j])
                    ELSE ss[i].artifacts[j]]]
        ELSE ss[i]]

\* sessions.find(s => s.id === sessionId)
HasSession(ss, sessionId) == \E i \in DOMAIN ss : ss[i].id = sessionId
FindSession(ss, sessionId) ==
    ss[CHOOSE i \in DOMAIN ss : ss[i].id = sessionId /\ \A k \in 1..(i - 1) : ss[k].id # sessionId]

\* The artifacts of a collection, as (session index, artifact index) pairs.
Places(ss) == UNION {{<<i, j>> : j \in DOMAIN ss[i].artifacts} : i \in DOMAIN ss}
ArtifactAt(ss, p) == ss[p[1]].artifacts[p[2]]
ArtifactIds(ss) == {ArtifactAt(ss, p).id : p \in Places(ss)}
HasArtifact(ss, artifactId) == artifactId \in ArtifactIds(ss)
ArtifactOf(ss, artifactId) ==
    ArtifactAt(ss, CHOOSE p \in Places(ss) : ArtifactAt(ss, p).id = artifactId)

Generating == {"streaming", "thinking"}
Terminal == {"complete", "error"}

(***************************************************************************)
(* Replication through localStorage.                                       *)
(***************************************************************************)
\* a serializer that drops an empty string as well
SerializeFieldDropsEmpty(v) == IF v \in {Undefined, Empty} THEN Absent ELSE v

\* JSON.stringify drops a property whose value is undefined.
SerializeField(v) == IF v = Undefined THEN Absent ELSE v

SerializeArtifact(a) ==
    [id |-> a.id,
     styleName |-> a.styleName,
     html |-> SerializeField(a.html),
     type |-> a.type,
     status |-> a.status,
     text |-> SerializeField(a.text),
     imageUrl |-> SerializeField(a.imageUrl),
     videoUrl |-> SerializeField(a.videoUrl),
     groundingLinks |-> SerializeField(a.groundingLinks)]

\* JSON.stringify(sessions)
Serialize(ss) ==
    [i \in DOMAIN ss |->
        [id |-> ss[i].id,
         prompt |-> ss[i].prompt,
         artifacts |-> [j \in DOMAIN ss[i].artifacts |-> SerializeArtifact(ss[i].artifacts[j])]]]

\* JSON.parse of a stored value: the object the text denotes.
Deserialize(item) == item.value

\* localStorage.setItem('omni-sessions', value) by tab c. A storage event is
\* dispatched to every other open tab, and only when the value changes.
SetItem(st, c, value) ==
    IF value = st.store
    THEN st
    ELSE [store |-> value,
          inbox |-> [d \in tabs |->
                        IF d # c THEN Append(st.inbox[d], value) ELSE st.inbox[d]]]

\* a replication that does not look at isCollabEnabled
ReplicationEffectAlways(st, c, ss, enabled) ==
    IF Len(ss) > 0 THEN SetItem(st, c, Item(Serialize(ss))) ELSE st

\* a replication that merges: the collection is added to what is stored
ReplicationEffectMerges(st, c, ss, enabled) ==
    IF enabled /\ Len(ss) > 0
    THEN SetItem(st, c, Item(st.store.value \o Serialize(ss)))
    ELSE st

\* useEffect(() => { if (isCollabEnabled && sessions.length > 0) localStorage.setItem(...) }, [sessions, isCollabEnabled])
ReplicationEffect(st, c, ss, enabled) ==
    IF enabled /\ Len(ss) > 0 THEN SetItem(st, c, Item(Serialize(ss))) ELSE st

InboxFits(st) == \A d \in DOMAIN st.inbox : Len(st.inbox[d]) <= MaxInbox

\* The replication effect after tab c's collection has become ss.
Replicate(c, ss) ==
    LET st == ReplicationEffect([store |-> store, inbox |-> inbox], c, ss, isCollabEnabled[c])
    IN  /\ InboxFits(st)
        /\ store' = st.store
        /\ inbox' = st.inbox

\* handleSendMessage is memoized on [inputValue, genMode, ..., sessions.length] and
\* not on isLoading: it reads the isLoading of the last render in which one of
\* these changed.
Recapture(c, changed, loadingAfter) ==
    sendIsLoading' = [sendIsLoading EXCEPT ![c] = IF changed THEN loadingAfter ELSE @]

(***************************************************************************)
(* Generation tasks: one record per performGeneration call in flight.      *)
(*   pc = "call"     awaiting the service's first answer (the key check,   *)
(*                   generateVideos, generateContent, generateContentStream)*)
(*   pc = "poll"     video: awaiting getVideosOperation until op.done      *)
(*   pc = "stream"   awaiting the next chunk of the stream                 *)
(*   pc = "tts"      chat: awaiting the speech synthesis call              *)
(*   pc = "reselect" in catch, awaiting window.aistudio.openSelectKey()    *)
(* mode is the genMode the call closed over; text is the local variable    *)
(* text of the stream branch. startedBy records the handler that made the  *)
(* call and yielded the chunk texts the stream has yielded so far, in      *)
(* order: the code keeps neither.                                          *)
(***************************************************************************)
NewTask(sessionId, artifactId, prompt, mode, by) ==
    [sessionId |-> sessionId, artifactId |-> artifactId, prompt |-> prompt,
     mode |-> mode, pc |-> "call", text |-> Empty, err |-> "", startedBy |-> by,
     yielded |-> <<>>]

RemoveAt(seq, i) == [k \in 1..(Len(seq) - 1) |-> IF k < i THEN seq[k] ELSE seq[k + 1]]

TasksFor(c, artifactId) == {i \in DOMAIN tasks[c] : tasks[c][i].artifactId = artifactId}

\* setSessions(...) of a task of tab c, with the replication effect that follows
WriteArtifact(c, t, F(_)) ==
    LET ss == MapArtifact(sessions[c], t.sessionId, t.artifactId, F)
    IN  /\ sessions' = [sessions EXCEPT ![c] = ss]
        /\ Replicate(c, ss)

\* Finish as a fail-fast join would do it: the sibling calls are dropped too
FinishAbortsSiblings(c, i) ==
    /\ tasks' = [tasks EXCEPT ![c] = <<>>]
    /\ isLoading' = [isLoading EXCEPT ![c] = FALSE]

\* finally { setIsLoading(false) }: the call returns
Finish(c, i) ==
    /\ tasks' = [tasks EXCEPT ![c] = RemoveAt(@, i)]
    /\ isLoading' = [isLoading EXCEPT ![c] = FALSE]

\* performGeneration up to its first await: setIsLoading(true)
StartTask(c, sessionId, artifactId, prompt, by) ==
    /\ Len(tasks[c]) < MaxTasks
    /\ tasks' = [tasks EXCEPT ![c] = Append(@, NewTask(sessionId, artifactId, prompt, genMode[c], by))]
    /\ isLoading' = [isLoading EXCEPT ![c] = TRUE]

(***************************************************************************)
(* The controls of the tab.                                                *)
(***************************************************************************)
\* <input onChange={e => setInputValue(e.target.value)}>
Type(c, v) ==
    /\ v # inputValue[c]
    /\ inputValue' = [inputValue EXCEPT ![c] = v]
    /\ Recapture(c, TRUE, isLoading[c])
    /\ UNCHANGED <<sessions, isLoading, genMode, isThinkingEnabled, isCollabEnabled,
                   tasks, transcribing, store, inbox, nextId, tabs, presenceVars, liveVars, cardVars>>

\* the mode dock: onClick={() => setGenMode(m)}
SelectMode(c, m) ==
    /\ m # genMode[c]
    /\ genMode' = [genMode EXCEPT ![c] = m]
    /\ Recapture(c, TRUE, isLoading[c])
    /\ UNCHANGED <<sessions, isLoading, inputValue, isThinkingEnabled, isCollabEnabled,
                   tasks, transcribing, store, inbox, nextId, tabs, presenceVars, liveVars, cardVars>>

\* the Deep Thinking toggle: setIsThinkingEnabled(!isThinkingEnabled)
ToggleThinking(c) ==
    /\ isThinkingEnabled' = [isThinkingEnabled EXCEPT ![c] = ~@]
    /\ Recapture(c, TRUE, isLoading[c])
    /\ UNCHANGED <<sessions, isLoading, inputValue, genMode, isCollabEnabled,
                   tasks, transcribing, store, inbox, nextId, tabs, presenceVars, liveVars, cardVars>>

\* if (!inputValue.trim() || isLoading) return;   (isLoading as the callback captured it)
SendReturnsEarly(c) == Trim(inputValue[c]) = "" \/ sendIsLoading[c]

\* handleSendMessage
HandleSendMessage(c) ==
    /\ ~SendReturnsEarly(c)
    /\ nextId + 2 <= 2 * MaxSessions
    /\ LET sessionId == nextId + 1
           artifactId == nextId + 2
           artifact == NewArtifact(artifactId, genMode[c], isThinkingEnabled[c])
           ss == Append(sessions[c], NewSession(sessionId, inputValue[c], artifact))
       IN  /\ nextId' = nextId + 2
           /\ inputValue' = [inputValue EXCEPT ![c] = ""]
           /\ sessions' = [sessions EXCEPT ![c] = ss]
           /\ StartTask(c, sessionId, artifactId, inputValue[c], "submit")
           /\ Recapture(c, TRUE, TRUE)
           /\ Replicate(c, ss)
    /\ UNCHANGED <<genMode, isThinkingEnabled, isCollabEnabled, transcribing, tabs, presenceVars, liveVars, cardVars>>

\* <input onKeyDown={e => e.key === 'Enter' && handleSendMessage()}>
SubmitEnter(c) == HandleSendMessage(c)

\* <button className="send-button" onClick={() => handleSendMessage()} disabled={isLoading}>
SubmitButton(c) == ~isLoading[c] /\ HandleSendMessage(c)

\* ResetArtifact without the html: '' of the update
ResetArtifactKeepsHtml(a, thinking) ==
    [a EXCEPT !.status = IF thinking THEN "thinking" ELSE "streaming",
              !.text = Empty]

\* the artifact after handleRetry's setSessions
ResetArtifact(a, thinking) ==
    [a EXCEPT !.status = IF thinking THEN "thinking" ELSE "streaming",
              !.html = Empty,
              !.text = Empty]

\* ArtifactCard renders the Try Again button, the only caller of onRetry, when
\* artifact.status === 'error'
RetryOffered(a) == a.status = "error"

\* if (!session || isLoading) return;
RetryReturnsEarly(c, sessionId) == ~HasSession(sessions[c], sessionId) \/ isLoading[c]

\* handleRetry
HandleRetry(c, sessionId, artifactId) ==
    /\ ~RetryReturnsEarly(c, sessionId)
    /\ LET reset(a) == ResetArtifact(a, isThinkingEnabled[c])
           ss == MapArtifact(sessions[c], sessionId, artifactId, reset)
       IN  /\ sessions' = [sessions EXCEPT ![c] = ss]
           /\ StartTask(c, sessionId, artifactId, FindSession(sessions[c], sessionId).prompt, "retry")
           /\ Replicate(c, ss)
    /\ UNCHANGED <<inputValue, sendIsLoading, genMode, isThinkingEnabled, isCollabEnabled,
                   transcribing, nextId, tabs, presenceVars, liveVars, cardVars>>

\* onRetry={() => handleRetry(session.id, a.id)} of a rendered card
Retry(c, p) ==
    /\ p \in Places(sessions[c])
    /\ RetryOffered(ArtifactAt(sessions[c], p))
    /\ HandleRetry(c, sessions[c][p[1]].id, ArtifactAt(sessions[c], p).id)

(***************************************************************************)
(* performGeneration after its first await: the steps of task i of tab c.  *)
(***************************************************************************)
StreamModes == {"ui", "chat", "vision"}

\* what one service answer can carry
ImageData == {"undefined", "AAAA"}
VideoLinks == {"undefined", "uri"}

\* video: generateVideos has answered; the operation is polled every 10 s
VideoStarted(c, i) ==
    LET t == tasks[c][i]
    IN  /\ t.pc = "call" /\ t.mode = "video"
        /\ tasks' = [tasks EXCEPT ![c][i].pc = "poll"]
        /\ UNCHANGED <<sessions, isLoading, inputValue, sendIsLoading, genMode, isThinkingEnabled,
                       isCollabEnabled, transcribing, store, inbox, nextId, tabs, presenceVars, liveVars, cardVars>>

\* video: op.done; { ...a, videoUrl: `${link}&key=${process.env.API_KEY}`, status: 'complete' }
VideoDone(c, i, link) ==
    LET t == tasks[c][i]
        done(a) == [a EXCEPT !.videoUrl = <<link, "&key=", "API_KEY">>, !.status = "complete"]
    IN  /\ t.pc = "poll"
        /\ WriteArtifact(c, t, done)
        /\ Finish(c, i)
        /\ UNCHANGED <<inputValue, sendIsLoading, genMode, isThinkingEnabled,
                       isCollabEnabled, transcribing, nextId, tabs, presenceVars, liveVars, cardVars>>

\* image: { ...a, imageUrl: `data:image/png;base64,${imgData}`, status: 'complete' }
ImageDone(c, i, imgData) ==
    LET t == tasks[c][i]
        done(a) == [a EXCEPT !.imageUrl = <<"data:image/png;base64,", imgData>>, !.status = "complete"]
    IN  /\ t.pc = "call" /\ t.mode = "image"
        /\ WriteArtifact(c, t, done)
        /\ Finish(c, i)
        /\ UNCHANGED <<inputValue, sendIsLoading, genMode, isThinkingEnabled,
                       isCollabEnabled, transcribing, nextId, tabs, presenceVars, liveVars, cardVars>>

\* generateContentStream has answered: the for await loop starts, text = ''
StreamOpened(c, i) ==
    LET t == tasks[c][i]
    IN  /\ t.pc = "call" /\ t.mode \in StreamModes
        /\ tasks' = [tasks EXCEPT ![c][i].pc = "stream"]
        /\ UNCHANGED <<sessions, isLoading, inputValue, sendIsLoading, genMode, isThinkingEnabled,
                       isCollabEnabled, transcribing, store, inbox, nextId, tabs, presenceVars, liveVars, cardVars>>

\* a chunk write that also stores the task's mode as the artifact's type
ChunkArtifactRetyped(a, mode, text, grounding) ==
    [a EXCEPT !.html = IF mode = "ui" THEN RemoveFences(text) ELSE text,
              !.text = IF mode # "ui" THEN text ELSE Undefined,
              !.groundingLinks = IF grounding # Undefined THEN grounding
                                 ELSE IF @ = Absent THEN Undefined ELSE @,
              !.status = "streaming",
              !.type = mode]

\* the artifact one chunk writes
ChunkArtifact(a, mode, text, grounding) ==
    [a EXCEPT !.html = IF mode = "ui" THEN RemoveFences(text) ELSE text,
              !.text = IF mode # "ui" THEN text ELSE Undefined,
              !.groundingLinks = IF grounding # Undefined THEN grounding
                                 ELSE IF @ = Absent THEN Undefined ELSE @,
              !.status = "streaming"]

\* text += fragment, the wrong way round
AccumulateInFront(text, fragment) == fragment \o text

\* text += chunk.text || ''
Accumulate(text, fragment) == text \o fragment

\* one turn of the for await loop: text += chunk.text || ''; setSessions(...)
StreamChunk(c, i, fragment, grounding) ==
    LET t == tasks[c][i]
        text == Accumulate(t.text, fragment)
        chunk(a) == ChunkArtifact(a, t.mode, text, grounding)
    IN  /\ t.pc = "stream"
        /\ Len(t.text) < MaxText
        /\ Len(t.yielded) < MaxChunks
        /\ tasks' = [tasks EXCEPT ![c][i].text = text, ![c][i].yielded = Append(@, fragment)]
        /\ WriteArtifact(c, t, chunk)
        /\ UNCHANGED <<isLoading, inputValue, sendIsLoading, genMode, isThinkingEnabled,
                       isCollabEnabled, transcribing, nextId, tabs, presenceVars, liveVars, cardVars>>

\* the stream is exhausted: { ...a, status: 'complete' }; chat goes on to the
\* speech synthesis call, every other mode returns
StreamEnd(c, i) ==
    LET t == tasks[c][i]
        done(a) == [a EXCEPT !.status = "complete"]
    IN  /\ t.pc = "stream"
        /\ WriteArtifact(c, t, done)
        /\ IF t.mode = "chat"
           THEN /\ tasks' = [tasks EXCEPT ![c][i].pc = "tts"]
                /\ UNCHANGED isLoading
           ELSE Finish(c, i)
        /\ UNCHANGED <<inputValue, sendIsLoading, genMode, isThinkingEnabled,
                       isCollabEnabled, transcribing, nextId, tabs, presenceVars, liveVars, cardVars>>

\* chat: the speech synthesis call has answered (the audio, if any, is played)
SpeechDone(c, i) ==
    LET t == tasks[c][i]
    IN  /\ t.pc = "tts"
        /\ Finish(c, i)
        /\ UNCHANGED <<sessions, inputValue, sendIsLoading, genMode, isThinkingEnabled,
                       isCollabEnabled, transcribing, store, inbox, nextId, tabs, presenceVars, liveVars, cardVars>>

\* the error write without its status: only the message is stored
ErrorArtifactKeepsStatus(a, msg) == [a EXCEPT !.html = MessageText(msg)]

\* catch (e): { ...a, status: 'error', html: errorMsg }; finally
ErrorArtifact(a, msg) == [a EXCEPT !.status = "error", !.html = MessageText(msg)]

WriteError(c, i, msg) ==
    LET failed(a) == ErrorArtifact(a, msg)
    IN  /\ WriteArtifact(c, tasks[c][i], failed)
        /\ Finish(c, i)

\* an awaited call rejects with message msg: the catch block. An 'entity not
\* found' failure first awaits openSelectKey().
TaskFails(c, i, msg) ==
    LET t == tasks[c][i]
    IN  /\ t.pc \in {"call", "poll", "stream", "tts"}
        /\ IF IncludesEntityNotFound(msg)
           THEN /\ tasks' = [tasks EXCEPT ![c][i].pc = "reselect", ![c][i].err = msg]
                /\ UNCHANGED <<sessions, isLoading, store, inbox>>
           ELSE WriteError(c, i, msg)
        /\ UNCHANGED <<inputValue, sendIsLoading, genMode, isThinkingEnabled,
                       isCollabEnabled, transcribing, nextId, tabs, presenceVars, liveVars, cardVars>>

\* openSelectKey() has returned or thrown (catch(keyErr) {})
KeyReselected(c, i) ==
    LET t == tasks[c][i]
    IN  /\ t.pc = "reselect"
        /\ WriteError(c, i, t.err)
        /\ UNCHANGED <<inputValue, sendIsLoading, genMode, isThinkingEnabled,
                       isCollabEnabled, transcribing, nextId, tabs, presenceVars, liveVars, cardVars>>

(***************************************************************************)
(* handleTranscribe: the voice input.                                      *)
(***************************************************************************)
Transcripts == {"", "p"}

\* setIsLoading(true); the recording starts
TranscribeStart(c) ==
    /\ transcribing[c] < MaxTranscribe
    /\ transcribing' = [transcribing EXCEPT ![c] = @ + 1]
    /\ isLoading' = [isLoading EXCEPT ![c] = TRUE]
    /\ UNCHANGED <<sessions, inputValue, sendIsLoading, genMode, isThinkingEnabled,
                   isCollabEnabled, tasks, store, inbox, nextId, tabs, presenceVars, liveVars, cardVars>>

\* reader.onloadend: setInputValue(resp.text || ''); setIsLoading(false)
TranscribeEnd(c, transcript) ==
    /\ transcribing[c] > 0
    /\ transcribing' = [transcribing EXCEPT ![c] = @ - 1]
    /\ inputValue' = [inputValue EXCEPT ![c] = transcript]
    /\ isLoading' = [isLoading EXCEPT ![c] = FALSE]
    /\ Recapture(c, transcript # inputValue[c], FALSE)
    /\ UNCHANGED <<sessions, genMode, isThinkingEnabled, isCollabEnabled, tasks,
                   store, inbox, nextId, tabs, presenceVars, liveVars, cardVars>>

\* getUserMedia or generateContent rejects: nothing catches it
TranscribeFails(c) ==
    /\ transcribing[c] > 0
    /\ transcribing' = [transcribing EXCEPT ![c] = @ - 1]
    /\ UNCHANGED <<sessions, isLoading, inputValue, sendIsLoading, genMode, isThinkingEnabled,
                   isCollabEnabled, tasks, store, inbox, nextId, tabs, presenceVars, liveVars, cardVars>>

(***************************************************************************)
(* Collaboration Sync: the session collection.                             *)
(***************************************************************************)
\* a heartbeat that stamps the tab and prunes nothing
HeartbeatMapKeepsAll(map, c, t) ==
    [id \in DOMAIN map \cup {c} |-> IF id = c THEN t ELSE map[id]]

\* The presence map after a heartbeat of tab c at time t: presence[TAB_ID] = t,
\* and the entries with t - presence[id] < 10000 are kept.
HeartbeatMap(map, c, t) ==
    LET stamped == [id \in DOMAIN map \cup {c} |-> IF id = c THEN t ELSE map[id]]
        active == {id \in DOMAIN stamped : t - stamped[id] < StaleSeconds}
    IN  [id \in active |-> stamped[id]]

\* localStorage.setItem('omni-presence', ...) by tab c: a storage event goes to
\* every other open tab whose listener is registered, if the value changes.
\* The events that wait in a tab whose listener is removed are lost.
SetPresence(c, map, listening) ==
    /\ presence' = map
    /\ presenceInbox' =
            [d \in DOMAIN presenceInbox |->
                IF d = c
                THEN IF listening THEN presenceInbox[c] ELSE <<>>
                ELSE IF d \in tabs /\ isCollabEnabled[d] /\ map # presence
                     THEN Append(presenceInbox[d], map)
                     ELSE presenceInbox[d]]
    /\ \A d \in DOMAIN presenceInbox : Len(presenceInbox'[d]) <= MaxPresenceInbox

\* heartbeat(), and the interval that calls it again after 3000 ms
Beat(c) ==
    LET cleanedPresence == HeartbeatMap(presence, c, now)
    IN  /\ SetPresence(c, cleanedPresence, TRUE)
        /\ activeUsers' = [activeUsers EXCEPT ![c] = DOMAIN cleanedPresence]
        /\ nextBeat' = [nextBeat EXCEPT ![c] = now + BeatSeconds]

\* the cleanup of the collaboration effect: clearInterval, removeEventListener,
\* delete presence[TAB_ID], setItem
Cleanup(c) ==
    /\ SetPresence(c, [id \in DOMAIN presence \ {c} |-> presence[id]], FALSE)
    /\ nextBeat' = [nextBeat EXCEPT ![c] = 0]
    /\ UNCHANGED activeUsers

\* the Live Sync toggle: setIsCollabEnabled(!isCollabEnabled). Switching it on
\* runs the collaboration effect, which beats, reads the stored collection and calls
\* setSessions with it, and then the replication effect, which still sees the
\* local collection; the render that setSessions causes runs the replication
\* effect a second time. Switching it off removes the storage listener.
ToggleCollab(c) ==
    /\ isCollabEnabled' = [isCollabEnabled EXCEPT ![c] = ~@]
    /\ IF isCollabEnabled[c]
       THEN UNCHANGED <<sessions, sendIsLoading, store, inbox>>
       ELSE LET stored == store
                st1 == ReplicationEffect([store |-> store, inbox |-> inbox], c, sessions[c], TRUE)
                ss == IF stored # NoItem THEN Deserialize(stored) ELSE sessions[c]
                st2 == IF stored # NoItem THEN ReplicationEffect(st1, c, ss, TRUE) ELSE st1
            IN  /\ InboxFits(st2)
                /\ sessions' = [sessions EXCEPT ![c] = ss]
                /\ store' = st2.store
                /\ inbox' = st2.inbox
                /\ Recapture(c, Len(ss) # Len(sessions[c]), isLoading[c])
    /\ IF isCollabEnabled[c] THEN Cleanup(c) ELSE Beat(c)
    /\ UNCHANGED <<isLoading, inputValue, genMode, isThinkingEnabled, tasks, transcribing,
                   nextId, tabs, now, liveVars, cardVars>>

\* clearSessions, the Clear Global Sessions button (rendered when isCollabEnabled):
\* setSessions([]); localStorage.removeItem('omni-sessions')
ClearSessions(c) ==
    /\ isCollabEnabled[c]
    /\ LET st == SetItem([store |-> store, inbox |-> inbox], c, NoItem)
       IN  /\ InboxFits(st)
           /\ store' = st.store
           /\ inbox' = st.inbox
    /\ sessions' = [sessions EXCEPT ![c] = <<>>]
    /\ Recapture(c, Len(sessions[c]) # 0, isLoading[c])
    /\ UNCHANGED <<isLoading, inputValue, genMode, isThinkingEnabled, isCollabEnabled,
                   tasks, transcribing, nextId, tabs, presenceVars, liveVars, cardVars>>

\* handleStorageChange for e.key === 'omni-sessions': if (e.newValue)
\* setSessions(JSON.parse(e.newValue)). The listener is registered while
\* isCollabEnabled; an event that finds none is lost.
HandleStorageChange(c) ==
    /\ inbox[c] # <<>>
    /\ LET value == Head(inbox[c])
           rest == [inbox EXCEPT ![c] = Tail(@)]
       IN  IF isCollabEnabled[c] /\ value # NoItem
           THEN LET ss == Deserialize(value)
                    st == ReplicationEffect([store |-> store, inbox |-> rest], c, ss, TRUE)
                IN  /\ InboxFits(st)
                    /\ sessions' = [sessions EXCEPT ![c] = ss]
                    /\ store' = st.store
                    /\ inbox' = st.inbox
                    /\ Recapture(c, Len(ss) # Len(sessions[c]), isLoading[c])
           ELSE /\ inbox' = rest
                /\ UNCHANGED <<sessions, sendIsLoading, store>>
    /\ UNCHANGED <<isLoading, inputValue, genMode, isThinkingEnabled, isCollabEnabled,
                   tasks, transcribing, nextId, tabs, presenceVars, liveVars, cardVars>>

(***************************************************************************)
(* The duplex audio session: handleLiveAPI (src/index.tsx:163-215).        *)
(*   Live.pc = "media"       awaiting navigator.mediaDevices.getUserMedia  *)
(*             "denied"      getUserMedia has rejected: handleLiveAPI ends *)
(*             "connecting"  ai.live.connect called, onopen not yet        *)
(*             "open"        onopen has run                                *)
(*             "closed"      onclose has run (after onerror, on a failure) *)
(* Live.early counts the frames captured before the connection promise     *)
(* resolved.                                                               *)
(* Time is in tenths of a second. ctx.currentTime of a playback context is *)
(* the audio time since its creation. An onmessage call with audio runs to *)
(* its await of decodeAudioData in one step and from there in another.     *)
(***************************************************************************)
\* the durations of the audio buffers the service sends: 0.3 s, 0.4 s, 0.5 s
ChunkDurations == {3, 4, 5}

Max(a, b) == IF a >= b THEN a ELSE b

NewLive ==
    [pc |-> "media", resolved |-> FALSE, capturing |-> FALSE,
     captured |-> 0, early |-> 0, waiting |-> <<>>, sent |-> <<>>]

\* ctx.currentTime
CurrentTime(ctx) == audioNow - contexts[ctx]

\* a guard that lets every call through
LiveNeverReturnsEarly == FALSE

\* if (isLiveActive) return;
LiveReturnsEarly == isLiveActive

\* handleLiveAPI up to its await of getUserMedia: setIsLiveActive(true), a new
\* playback context in outputAudioContextRef, a new capture context
HandleLiveAPI ==
    /\ ~LiveReturnsEarly
    /\ Len(lives) < MaxLives
    /\ isLiveActive' = TRUE
    /\ contexts' = Append(contexts, audioNow)
    /\ lives' = Append(lives, NewLive)
    /\ UNCHANGED <<audioNow, nextStartTime, sources, nodes, decoding, received, interrupts>>

\* getUserMedia resolves: ai.live.connect is called
MediaGranted(i) ==
    /\ lives[i].pc = "media"
    /\ lives' = [lives EXCEPT ![i].pc = "connecting"]
    /\ UNCHANGED <<isLiveActive, contexts, audioNow, nextStartTime, sources, nodes, decoding,
                   received, interrupts>>

\* getUserMedia rejects: handleLiveAPI throws, isLiveActive stays as it is
MediaDenied(i) ==
    /\ lives[i].pc = "media"
    /\ lives' = [lives EXCEPT ![i].pc = "denied"]
    /\ UNCHANGED <<isLiveActive, contexts, audioNow, nextStartTime, sources, nodes, decoding,
                   received, interrupts>>

\* onopen: the script processor is connected between the microphone and the
\* capture context's destination
OnOpen(i) ==
    /\ lives[i].pc = "connecting"
    /\ lives' = [lives EXCEPT ![i].pc = "open", ![i].capturing = TRUE]
    /\ UNCHANGED <<isLiveActive, contexts, audioNow, nextStartTime, sources, nodes, decoding,
                   received, interrupts>>

\* the promise ai.live.connect returned resolves, after onopen
ConnectResolved(i) ==
    /\ lives[i].capturing
    /\ ~lives[i].resolved
    /\ lives' = [lives EXCEPT ![i].resolved = TRUE, ![i].early = lives[i].captured]
    /\ UNCHANGED <<isLiveActive, contexts, audioNow, nextStartTime, sources, nodes, decoding,
                   received, interrupts>>

\* scriptProcessor.onaudioprocess: the frame is encoded and
\* sessionPromise.then(s => s.sendRealtimeInput(...)) registers its send
OnAudioProcess(i) ==
    /\ lives[i].capturing
    /\ lives[i].captured < MaxFrames
    /\ lives' = [lives EXCEPT ![i].captured = @ + 1,
                              ![i].waiting = Append(@, lives[i].captured + 1)]
    /\ UNCHANGED <<isLiveActive, contexts, audioNow, nextStartTime, sources, nodes, decoding,
                   received, interrupts>>

\* reactions of a promise that run last registered first
LastRegistered(waiting) == Len(waiting)

\* the reactions of a promise run in the order of their registration
FirstRegistered(waiting) == 1

\* a reaction registered on the resolved sessionPromise runs: s.sendRealtimeInput
SendRealtimeInput(i) ==
    /\ lives[i].resolved
    /\ lives[i].waiting # <<>>
    /\ LET k == FirstRegistered(lives[i].waiting)
           w == lives[i].waiting
       IN  lives' = [lives EXCEPT ![i].sent = Append(@, w[k]),
                                  ![i].waiting = SubSeq(w, 1, k - 1) \o SubSeq(w, k + 1, Len(w))]
    /\ UNCHANGED <<isLiveActive, contexts, audioNow, nextStartTime, sources, nodes, decoding,
                   received, interrupts>>

\* onclose: () => setIsLiveActive(false); on a failure onerror runs first, in
\* the same task, and does the same
OnClose(i) ==
    /\ lives[i].pc \in {"connecting", "open"}
    /\ lives' = [lives EXCEPT ![i].pc = "closed"]
    /\ isLiveActive' = FALSE
    /\ UNCHANGED <<contexts, audioNow, nextStartTime, sources, nodes, decoding, received,
                   interrupts>>

\* sourcesRef.current.forEach(s => s.stop())
StopAll(ns, srcs) ==
    [n \in DOMAIN ns |-> IF n \in srcs THEN [ns[n] EXCEPT !.stopped = TRUE] ELSE ns[n]]

\* a scheduler that forgets the play head after every buffer
AdvanceForgets(start, duration) == 0

\* nextStartTimeRef.current += buffer.duration
Advance(start, duration) == start + duration

\* onmessage of a message with audio of the given duration (0: no audio) and
\* the given interrupted flag, up to the await of decodeAudioData; a message
\* without audio is handled in this step to its end
OnMessage(i, duration, interrupted) ==
    /\ lives[i].pc = "open"
    /\ received < MaxMessages
    /\ duration # 0 \/ interrupted
    /\ received' = received + 1
    /\ IF duration # 0
       THEN /\ Len(decoding) < MaxDecoding
            /\ nextStartTime' = Max(nextStartTime, CurrentTime(Len(contexts)))
            /\ decoding' = Append(decoding, [msg |-> received + 1, duration |-> duration,
                                             ctx |-> Len(contexts), interrupted |-> interrupted])
            /\ UNCHANGED <<sources, nodes, interrupts>>
       ELSE /\ nodes' = StopAll(nodes, sources)
            /\ sources' = {}
            /\ nextStartTime' = 0
            /\ interrupts' = Append(interrupts, [msg |-> received + 1, at |-> audioNow])
            /\ UNCHANGED decoding
    /\ UNCHANGED <<isLiveActive, lives, contexts, audioNow>>

\* the oldest suspended onmessage call goes on: the source is created, started
\* at nextStartTimeRef.current and added to sourcesRef; then the interrupted
\* flag of its message is looked at
DecodeDone ==
    /\ decoding # <<>>
    /\ LET call == Head(decoding)
           node == [msg |-> call.msg, when |-> nextStartTime,
                    called |-> CurrentTime(call.ctx), duration |-> call.duration,
                    ctx |-> call.ctx, epoch |-> Len(interrupts), stopped |-> FALSE]
           started == Append(nodes, node)
           added == sources \cup {Len(started)}
       IN  /\ decoding' = Tail(decoding)
           /\ IF call.interrupted
              THEN /\ nodes' = StopAll(started, added)
                   /\ sources' = {}
                   /\ nextStartTime' = 0
                   /\ interrupts' = Append(interrupts, [msg |-> call.msg, at |-> audioNow])
              ELSE /\ nodes' = started
                   /\ sources' = added
                   /\ nextStartTime' = Advance(nextStartTime, call.duration)
                   /\ UNCHANGED interrupts
    /\ UNCHANGED <<isLiveActive, lives, contexts, audioNow, received>>

\* a tenth of a second passes on the audio clock
AudioTick ==
    /\ audioNow < MaxAudioNow
    /\ audioNow' = audioNow + 1
    /\ UNCHANGED <<isLiveActive, lives, contexts, nextStartTime, sources, nodes, decoding,
                   received, interrupts>>

\* what the duplex session leaves alone
LiveKeeps ==
    UNCHANGED <<sessions, isLoading, inputValue, sendIsLoading, genMode, isThinkingEnabled,
                isCollabEnabled, tasks, transcribing, store, inbox, nextId, tabs,
                presenceVars, cardVars>>

(***************************************************************************)
(* Specifications.                                                         *)
(***************************************************************************)
\* Nothing stored but the Live Sync preference of each tab ('collab-enabled');
\* every tab as App() constructs it, at time 0. The tabs with Live Sync on have
\* run their first heartbeat and have handled each other's storage events.
InitTabs(open) ==
    /\ tabs = open
    /\ sessions = [c \in open |-> <<>>]
    /\ isLoading = [c \in open |-> FALSE]
    /\ inputValue = [c \in open |-> ""]
    /\ sendIsLoading = [c \in open |-> FALSE]
    /\ genMode = [c \in open |-> "ui"]
    /\ isThinkingEnabled = [c \in open |-> FALSE]
    /\ isCollabEnabled \in [open -> BOOLEAN]
    /\ tasks = [c \in open |-> <<>>]
    /\ transcribing = [c \in open |-> 0]
    /\ store = NoItem
    /\ inbox = [c \in open |-> <<>>]
    /\ nextId = 0
    /\ now = 0
    /\ presence = [c \in {d \in open : isCollabEnabled[d]} |-> 0]
    /\ nextBeat = [c \in open |-> IF isCollabEnabled[c] THEN BeatSeconds ELSE 0]
    /\ activeUsers = [c \in open |-> IF isCollabEnabled[c] THEN DOMAIN presence ELSE {}]
    /\ presenceInbox = [c \in open |-> <<>>]
    /\ isLiveActive = FALSE
    /\ lives = <<>>
    /\ contexts = <<>>
    /\ audioNow = 0
    /\ nextStartTime = 0
    /\ sources = {}
    /\ nodes = <<>>
    /\ decoding = <<>>
    /\ received = 0
    /\ interrupts = <<>>
    /\ card = NoCard
    /\ analysis = NoAnalysis

Init == InitTabs({1}) /\ isCollabEnabled[1]

(***************************************************************************)
(* Spec: one tab, the text modes. Sync stays on, so the stored collection  *)
(* follows the local one.                                                  *)
(***************************************************************************)
TextInputs == {"", " ", "p"}
TextModes == {"ui", "chat"}
TextFragments == {<<"a">>}
TextGroundings == {Undefined}
TextErrors == {EntityNotFound, "quota exceeded"}

Next ==
    \E c \in tabs :
        \/ \E v \in TextInputs : Type(c, v)
        \/ \E m \in TextModes : SelectMode(c, m)
        \/ ToggleThinking(c)
        \/ SubmitEnter(c)
        \/ SubmitButton(c)
        \/ \E p \in Places(sessions[c]) : Retry(c, p)
        \/ \E i \in DOMAIN tasks[c] :
            \/ StreamOpened(c, i)
            \/ \E fragment \in TextFragments, grounding \in TextGroundings :
                    StreamChunk(c, i, fragment, grounding)
            \/ StreamEnd(c, i)
            \/ SpeechDone(c, i)
            \/ \E msg \in TextErrors : TaskFails(c, i, msg)
            \/ KeyReselected(c, i)

Spec == Init /\ [][Next]_vars

(***************************************************************************)
(* SpecMedia: one tab, every mode of the mode dock, one prompt at a time   *)
(* (the send button).                                                      *)
(***************************************************************************)
MediaInputs == {"", "p"}
MediaErrors == {"quota exceeded"}

NextMedia ==
    \E c \in tabs :
        \/ \E v \in MediaInputs : Type(c, v)
        \/ \E m \in ArtifactType : SelectMode(c, m)
        \/ ToggleThinking(c)
        \/ SubmitButton(c)
        \/ \E p \in Places(sessions[c]) : Retry(c, p)
        \/ \E i \in DOMAIN tasks[c] :
            \/ VideoStarted(c, i)
            \/ \E link \in VideoLinks : VideoDone(c, i, link)
            \/ \E imgData \in ImageData : ImageDone(c, i, imgData)
            \/ StreamOpened(c, i)
            \/ StreamEnd(c, i)
            \/ SpeechDone(c, i)
            \/ \E msg \in MediaErrors : TaskFails(c, i, msg)

SpecMedia == Init /\ [][NextMedia]_vars

(***************************************************************************)
(* SpecFail: one tab, UI mode, both kinds of failure.                      *)
(***************************************************************************)
SmallInputs == {"", "p"}

NextFail ==
    \E c \in tabs :
        \/ \E v \in SmallInputs : Type(c, v)
        \/ SubmitEnter(c)
        \/ \E p \in Places(sessions[c]) : Retry(c, p)
        \/ \E i \in DOMAIN tasks[c] :
            \/ StreamOpened(c, i)
            \/ \E fragment \in TextFragments, grounding \in TextGroundings :
                    StreamChunk(c, i, fragment, grounding)
            \/ StreamEnd(c, i)
            \/ \E msg \in TextErrors : TaskFails(c, i, msg)
            \/ KeyReselected(c, i)

SpecFail == Init /\ [][NextFail]_vars

(***************************************************************************)
(* SpecRetry: one tab, UI mode, with the Deep Thinking toggle.             *)
(***************************************************************************)
NextRetry ==
    \E c \in tabs :
        \/ \E v \in SmallInputs : Type(c, v)
        \/ ToggleThinking(c)
        \/ SubmitEnter(c)
        \/ \E p \in Places(sessions[c]) : Retry(c, p)
        \/ \E i \in DOMAIN tasks[c] :
            \/ StreamOpened(c, i)
            \/ \E fragment \in TextFragments, grounding \in TextGroundings :
                    StreamChunk(c, i, fragment, grounding)
            \/ StreamEnd(c, i)
            \/ \E msg \in MediaErrors : TaskFails(c, i, msg)

SpecRetry == Init /\ [][NextRetry]_vars

(***************************************************************************)
(* SpecTab: one tab, UI mode, with the voice input, the Live Sync toggle   *)
(* and Clear Global Sessions.                                              *)
(***************************************************************************)
TabTaskStep(c, i) ==
    \/ StreamOpened(c, i)
    \/ \E fragment \in TextFragments, grounding \in TextGroundings :
            StreamChunk(c, i, fragment, grounding)
    \/ StreamEnd(c, i)
    \/ \E msg \in MediaErrors : TaskFails(c, i, msg)

NextTab ==
    \E c \in tabs :
        \/ \E v \in SmallInputs : Type(c, v)
        \/ SubmitEnter(c)
        \/ \E p \in Places(sessions[c]) : Retry(c, p)
        \/ TranscribeStart(c)
        \/ \E transcript \in Transcripts : TranscribeEnd(c, transcript)
        \/ TranscribeFails(c)
        \/ ToggleCollab(c)
        \/ ClearSessions(c)
        \/ \E i \in DOMAIN tasks[c] : TabTaskStep(c, i)

SpecTab == Init /\ [][NextTab]_vars

(***************************************************************************)
(* SpecSync: two tabs of one origin, UI mode. Each tab starts with Live    *)
(* Sync as its stored preference ('collab-enabled') has it, on or off. The *)
(* service answers every call and the event loop runs every continuation   *)
(* and delivers every storage event.                                       *)
(***************************************************************************)
SyncTabs == {1, 2}
SyncInputs == {"p"}

InitSync == InitTabs(SyncTabs)

SyncTaskStep(c, i) ==
    /\ i \in DOMAIN tasks[c]
    /\ \/ StreamOpened(c, i)
       \/ StreamEnd(c, i)
       \/ \E msg \in MediaErrors : TaskFails(c, i, msg)

\* Try Again is exercised in the tabs that have Live Sync off
SyncRetry(c) == ~isCollabEnabled[c] /\ \E p \in Places(sessions[c]) : Retry(c, p)

NextSync ==
    \E c \in tabs :
        \/ \E v \in SyncInputs : Type(c, v)
        \/ SubmitEnter(c)
        \/ SyncRetry(c)
        \/ \E i \in DOMAIN tasks[c] : SyncTaskStep(c, i)
        \/ HandleStorageChange(c)

SpecSync ==
    /\ InitSync
    /\ [][NextSync]_vars
    /\ \A c \in SyncTabs :
        /\ WF_vars(HandleStorageChange(c))
        /\ \A i \in 1..MaxTasks : WF_vars(SyncTaskStep(c, i))

(***************************************************************************)
(* SpecClear: two tabs of one origin, UI mode, with Clear Global Sessions. *)
(***************************************************************************)
NextClear ==
    \E c \in tabs :
        \/ \E v \in SyncInputs : Type(c, v)
        \/ SubmitEnter(c)
        \/ ClearSessions(c)
        \/ \E i \in DOMAIN tasks[c] : SyncTaskStep(c, i)
        \/ HandleStorageChange(c)

SpecClear == InitSync /\ [][NextClear]_vars

(***************************************************************************)
(* SpecShare: two tabs of one origin with Live Sync on in both, UI mode.   *)
(* Tab 1 submits one prompt; a failed artifact offers Try Again in every   *)
(* tab that shows it.                                                      *)
(***************************************************************************)
ShareTabs == {1}

InitShare == InitTabs(SyncTabs) /\ \A c \in SyncTabs : isCollabEnabled[c]

NextShare ==
    \E c \in tabs :
        \/ c \in ShareTabs /\ sessions[c] = <<>> /\ \E v \in SyncInputs : Type(c, v)
        \/ c \in ShareTabs /\ sessions[c] = <<>> /\ SubmitEnter(c)
        \/ \E p \in Places(sessions[c]) : Retry(c, p)
        \/ \E i \in DOMAIN tasks[c] : SyncTaskStep(c, i)
        \/ HandleStorageChange(c)

SpecShare == InitShare /\ [][NextShare]_vars

(***************************************************************************)
(* SpecPresence: three tabs of one origin and their heartbeats. Tab 1 may  *)
(* be closed or crash: its cleanup does not run. Tab 2 keeps Live Sync on. *)
(* Tab 3 switches Live Sync off and on. The clock is bounded: tab 1        *)
(* crashes early enough for its eviction to be seen.                       *)
(***************************************************************************)
PresenceTabs == {1, 2, 3}
CrashTabs == {1}
ToggleTabs == {3}

InitPresence == InitTabs(PresenceTabs) /\ isCollabEnabled[1] /\ isCollabEnabled[2]

\* a second passes; the heartbeats that are due and the storage events that
\* wait are handled before the clock moves on
Tick ==
    /\ now < MaxNow
    /\ \A c \in tabs : isCollabEnabled[c] => nextBeat[c] > now
    /\ \A c \in tabs : presenceInbox[c] = <<>>
    /\ now' = now + 1
    /\ UNCHANGED <<sessions, isLoading, inputValue, sendIsLoading, genMode, isThinkingEnabled,
                   isCollabEnabled, tasks, transcribing, store, inbox, nextId, tabs,
                   presence, nextBeat, activeUsers, presenceInbox, liveVars, cardVars>>

\* the interval fires: heartbeat()
Heartbeat(c) ==
    /\ isCollabEnabled[c]
    /\ nextBeat[c] = now
    /\ Beat(c)
    /\ UNCHANGED <<sessions, isLoading, inputValue, sendIsLoading, genMode, isThinkingEnabled,
                   isCollabEnabled, tasks, transcribing, store, inbox, nextId, tabs, now,
                   liveVars, cardVars>>

\* handleStorageChange for e.key === 'omni-presence':
\* setActiveUsers(Object.keys(JSON.parse(e.newValue)))
HandlePresenceChange(c) ==
    /\ presenceInbox[c] # <<>>
    /\ activeUsers' = [activeUsers EXCEPT ![c] = DOMAIN Head(presenceInbox[c])]
    /\ presenceInbox' = [presenceInbox EXCEPT ![c] = Tail(@)]
    /\ UNCHANGED <<sessions, isLoading, inputValue, sendIsLoading, genMode, isThinkingEnabled,
                   isCollabEnabled, tasks, transcribing, store, inbox, nextId, tabs,
                   presence, now, nextBeat, liveVars, cardVars>>

\* the tab is closed or crashes: nothing of it runs any more, its cleanup included
Crash(c) ==
    /\ Cardinality(tabs) > 1
    /\ now + StaleSeconds + BeatSeconds <= MaxNow
    /\ tabs' = tabs \ {c}
    /\ UNCHANGED <<sessions, isLoading, inputValue, sendIsLoading, genMode, isThinkingEnabled,
                   isCollabEnabled, tasks, transcribing, store, inbox, nextId, presenceVars, liveVars, cardVars>>

\* the Live Sync button is clicked at a human's pace: the storage events of
\* the click before have been handled; and, the clock being bounded, while a
\* heartbeat period is left to run
TogglePossible ==
    /\ now + BeatSeconds <= MaxNow
    /\ \A d \in tabs : presenceInbox[d] = <<>>

NextPresence ==
    \/ Tick
    \/ \E c \in tabs :
        \/ Heartbeat(c)
        \/ HandlePresenceChange(c)
        \/ c \in ToggleTabs /\ TogglePossible /\ ToggleCollab(c)
        \/ c \in CrashTabs /\ Crash(c)

SpecPresence ==
    /\ InitPresence
    /\ [][NextPresence]_vars
    /\ SF_vars(Tick)
    /\ \A c \in PresenceTabs :
        /\ SF_vars(c \in tabs /\ Heartbeat(c))
        /\ WF_vars(c \in tabs /\ HandlePresenceChange(c))

(***************************************************************************)
(* SpecOff: two tabs of one origin, UI mode; tab 1 keeps its Live Sync     *)
(* preference, tab 2 switches Live Sync off and on while both tabs send    *)
(* prompts and their heartbeats run. The clock runs over one heartbeat     *)
(* period.                                                                 *)
(***************************************************************************)
OffTabs == {2}
OffHorizon == BeatSeconds

InitOff == InitTabs(SyncTabs) /\ isCollabEnabled[1]

\* the steps of a generation that succeeds
OffTaskStep(c, i) ==
    /\ i \in DOMAIN tasks[c]
    /\ \/ StreamOpened(c, i)
       \/ StreamEnd(c, i)

NextOff ==
    \/ now < OffHorizon /\ Tick
    \/ \E c \in tabs :
        \/ Heartbeat(c)
        \/ HandlePresenceChange(c)
        \/ c \in OffTabs /\ ToggleCollab(c)
        \/ \E v \in SyncInputs : Type(c, v)
        \/ SubmitEnter(c)
        \/ \E i \in DOMAIN tasks[c] : OffTaskStep(c, i)
        \/ HandleStorageChange(c)

SpecOff == InitOff /\ [][NextOff]_vars

(***************************************************************************)
(* SpecDuplex: one tab; the duplex audio session is started, opens,        *)
(* captures and sends audio frames, is closed and is started again.        *)
(***************************************************************************)
NextDuplex ==
    /\ LiveKeeps
    /\ \/ HandleLiveAPI
       \/ \E i \in DOMAIN lives :
            \/ MediaGranted(i)
            \/ MediaDenied(i)
            \/ OnOpen(i)
            \/ ConnectResolved(i)
            \/ OnAudioProcess(i)
            \/ SendRealtimeInput(i)
            \/ OnClose(i)
            \/ OnMessage(i, 3, FALSE)
       \/ DecodeDone

SpecDuplex == Init /\ [][NextDuplex]_vars

(***************************************************************************)
(* SpecPlay: one tab, one duplex audio session; the service sends audio    *)
(* and interruption signals while the audio clock runs.                    *)
(***************************************************************************)
\* audio of each duration, an interruption signal, and audio that carries one
PlayMessages ==
    {<<d, FALSE>> : d \in ChunkDurations} \cup {<<0, TRUE>>, <<3, TRUE>>}

NextPlay ==
    /\ LiveKeeps
    /\ \/ Len(lives) = 0 /\ HandleLiveAPI
       \/ \E i \in DOMAIN lives :
            \/ MediaGranted(i)
            \/ OnOpen(i)
            \/ \E m \in PlayMessages : OnMessage(i, m[1], m[2])
       \/ DecodeDone
       \/ AudioTick

SpecPlay == Init /\ [][NextPlay]_vars

(***************************************************************************)
(* The artifact card: the analysis of a failed artifact's diagnostic.  The  *)
(* sources hold two variants of the card, one computing errorAnalysis and   *)
(* one computing errorContext; a rendered card is modelled with both.       *)
(* A diagnostic is a text, a sequence of tokens separated by spaces.        *)
(***************************************************************************)
Words ==
    {"requested entity was not found", "404", "Safety", "blocked", "finish_reason_safety",
     "quota", "RESOURCE_EXHAUSTED", "429", "network", "fetch", "connection",
     "INVALID_ARGUMENT", "400", "format", "mime", "oops"}

MaxDiagnostic == 2

Diagnostics == UNION {[1..n -> Words] : n \in 0..MaxDiagnostic}

\* String.prototype.toLowerCase, token by token
LowerWord(w) ==
    CASE w = "Safety" -> "safety"
      [] w = "RESOURCE_EXHAUSTED" -> "resource_exhausted"
      [] w = "INVALID_ARGUMENT" -> "invalid_argument"
      [] OTHER -> w

ToLowerCase(t) == [i \in DOMAIN t |-> LowerWord(t[i])]

\* the pattern is a substring of the token
WordIncludes(w, pattern) ==
    \/ w = pattern
    \/ <<w, pattern>> \in {<<"finish_reason_safety", "safety">>,
                           <<"resource_exhausted", "exhausted">>,
                           <<"invalid_argument", "invalid">>,
                           <<"invalid_argument", "argument">>}

\* String.prototype.includes
Includes(msg, pattern) == \E i \in DOMAIN msg : WordIncludes(msg[i], pattern)

\* a || b on strings, where b may be undefined
OrElse(a, b) == IF a \notin {Empty, Undefined, Absent} THEN a ELSE b

\* (artifact.html || artifact.text || "").toLowerCase()
Msg(artifact) == ToLowerCase(OrElse(OrElse(artifact.html, artifact.text), Empty))

\* errorAnalysis of the card with the category badge
ErrorAnalysis(artifact) ==
    LET msg == Msg(artifact) IN
    IF artifact.status # "error" THEN [category |-> "none", actionLabel |-> "none"]
    ELSE IF Includes(msg, "requested entity was not found") \/ Includes(msg, "404")
        THEN [category |-> "Billing or API Key Issue", actionLabel |-> "Update API Key"]
    ELSE IF Includes(msg, "safety") \/ Includes(msg, "blocked") \/ Includes(msg, "finish_reason_safety")
        THEN [category |-> "Content Blocked", actionLabel |-> "Retry"]
    ELSE IF Includes(msg, "quota") \/ Includes(msg, "exhausted") \/ Includes(msg, "429")
        THEN [category |-> "Rate Limit Reached", actionLabel |-> "Retry Now"]
    ELSE IF Includes(msg, "network") \/ Includes(msg, "fetch") \/ Includes(msg, "connection")
        THEN [category |-> "Network Connectivity", actionLabel |-> "Retry"]
    ELSE IF Includes(msg, "invalid") \/ Includes(msg, "argument") \/ Includes(msg, "400")
        THEN [category |-> "Invalid Request Parameter", actionLabel |-> "Retry"]
    ELSE [category |-> "Unknown System Error", actionLabel |-> "Retry"]

\* errorContext of the card without the badge: the list of suggestions
ErrorContext(artifact) ==
    LET msg == Msg(artifact) IN
    IF artifact.status # "error" THEN <<>>
    ELSE IF Includes(msg, "requested entity was not found") \/ Includes(msg, "404")
        THEN <<"Ensure you have selected a valid paid API key for this model.",
               "Check if billing is enabled for your project in Google AI Studio.">>
    ELSE IF Includes(msg, "safety") \/ Includes(msg, "blocked")
        THEN <<"Try rephrasing your prompt to be more neutral.",
               "The model's safety filters may have flagged the content.">>
    ELSE IF Includes(msg, "quota") \/ Includes(msg, "exhausted") \/ Includes(msg, "429")
        THEN <<"You've reached your rate limit. Wait 60 seconds and try again.",
               "Switch to 'Lite' mode for higher quota availability.">>
    ELSE IF Includes(msg, "format") \/ Includes(msg, "mime")
        THEN <<"Check that the uploaded image is a valid PNG or JPEG.">>
    ELSE <<"Check your internet connection.",
           "Try refreshing the session or switching generation modes.">>

CardKeeps ==
    UNCHANGED <<sessions, isLoading, inputValue, sendIsLoading, genMode, isThinkingEnabled,
                isCollabEnabled, tasks, transcribing, store, inbox, nextId, tabs,
                presenceVars, liveVars>>

\* A card is rendered for an artifact; its memoized analysis is computed in
\* the render.
RenderCard(status, html, text) ==
    /\ card' = [status |-> status, html |-> html, text |-> text]
    /\ analysis' = [category |-> ErrorAnalysis(card').category,
                    actionLabel |-> ErrorAnalysis(card').actionLabel,
                    context |-> ErrorContext(card')]
    /\ CardKeeps

\* the artifacts rendered: a failed one holds the diagnostic in html; one
\* without html holds a text or none
NextCard ==
    \/ \E html \in Diagnostics \ {Empty} : RenderCard("error", html, Undefined)
    \/ \E text \in Diagnostics \cup {Undefined, Absent} : RenderCard("error", Empty, text)
    \/ \E html \in {d \in Diagnostics : Len(d) <= 1} : RenderCard("complete", html, Undefined)

SpecCard == Init /\ [][NextCard]_vars

(***************************************************************************)
(* SpecStream: one tab, the text modes, streams that yield different chunk *)
(* texts, empty ones and fencing markers among them.                       *)
(***************************************************************************)
StreamFragments == {<<"a">>, <<"[fence-html]", "b">>, <<>>}

NextStream ==
    \E c \in tabs :
        \/ \E v \in SyncInputs : Type(c, v)
        \/ \E m \in TextModes : SelectMode(c, m)
        \/ SubmitEnter(c)
        \/ \E p \in Places(sessions[c]) : Retry(c, p)
        \/ \E i \in DOMAIN tasks[c] :
            \/ StreamOpened(c, i)
            \/ \E fragment \in StreamFragments, grounding \in TextGroundings :
                    StreamChunk(c, i, fragment, grounding)
            \/ StreamEnd(c, i)
            \/ SpeechDone(c, i)
            \/ \E msg \in MediaErrors : TaskFails(c, i, msg)

SpecStream == Init /\ [][NextStream]_vars

(***************************************************************************)
(* SpecFence: one tab, UI mode with the Deep Thinking toggle, a service     *)
(* that fences its markup: an opening html fence, a newline, the markup, a *)
(* newline, a closing fence. It may also answer with the bare markup, and  *)
(* with chunks that carry no text.                                         *)
(***************************************************************************)
Newline == "\n"
FencedFragments ==
    {<<"[fence-html]", Newline, "<div/>", Newline, "[fence]">>,
     <<"<div/>">>,
     <<>>}

NextFence ==
    \E c \in tabs :
        \/ \E v \in SmallInputs : Type(c, v)
        \/ ToggleThinking(c)
        \/ SubmitButton(c)
        \/ \E p \in Places(sessions[c]) : Retry(c, p)
        \/ \E i \in DOMAIN tasks[c] :
            \/ StreamOpened(c, i)
            \/ \E fragment \in FencedFragments, grounding \in TextGroundings :
                    StreamChunk(c, i, fragment, grounding)
            \/ StreamEnd(c, i)
            \/ \E msg \in MediaErrors : TaskFails(c, i, msg)

SpecFence == Init /\ [][NextFence]_vars

(***************************************************************************)
(* The claims.                                                             *)
(***************************************************************************)
StatusOf(ss, artifactId) == ArtifactOf(ss, artifactId).status

\* the step is an accepted retry of artifact artifactId of tab c
RetryOf(c, artifactId) ==
    \E p \in Places(sessions[c]) : ArtifactAt(sessions[c], p).id = artifactId /\ Retry(c, p)

\* C3: the status of an artifact changes only from streaming|thinking to
\* complete or error, and from complete or error back to streaming|thinking by a
\* retry of that artifact: a terminal status is left by nothing else, a failing
\* follow-up step of the same task included.
C3_StatusEdges ==
    [][\A c \in tabs :
         \A artifactId \in ArtifactIds(sessions[c]) \cap ArtifactIds(sessions'[c]) :
            LET before == StatusOf(sessions[c], artifactId)
                after == StatusOf(sessions'[c], artifactId)
            IN  \/ after = before
                \/ before \in Generating
                \/ before \in Terminal /\ after \in Generating /\ RetryOf(c, artifactId)]_vars

\* the step is an accepted submit of tab c
SubmitOf(c) == SubmitEnter(c) \/ SubmitButton(c)

\* C5: an accepted submit appends exactly one session; it has 3 artifacts in UI
\* mode and 1 in every other mode, each streaming or thinking with empty content.
C5_FanOut ==
    [][\A c \in tabs :
         SubmitOf(c) =>
            /\ Len(sessions'[c]) = Len(sessions[c]) + 1
            /\ SubSeq(sessions'[c], 1, Len(sessions[c])) = sessions[c]
            /\ LET new == sessions'[c][Len(sessions'[c])]
               IN  /\ Len(new.artifacts) = IF genMode[c] = "ui" THEN 3 ELSE 1
                   /\ \A j \in DOMAIN new.artifacts :
                        /\ new.artifacts[j].status \in Generating
                        /\ new.artifacts[j].html = Empty]_vars

\* C7: while the prompt is empty or whitespace-only, or a generation task is in
\* flight, no submit is accepted, by the Enter key or by the send button.
C7_SubmitRejected ==
    [][\A c \in tabs :
         (Trim(inputValue[c]) = "" \/ Len(tasks[c]) > 0) => ~SubmitOf(c)]_vars

\* C8: a retry offered for an artifact returns early only when a task for that
\* artifact is active.
C8_RetryNoOpOnlyWhenActive ==
    \A c \in tabs :
        \A p \in Places(sessions[c]) :
            (RetryOffered(ArtifactAt(sessions[c], p)) /\ RetryReturnsEarly(c, sessions[c][p[1]].id))
                => TasksFor(c, ArtifactAt(sessions[c], p).id) # {}

\* C9: a task started by a retry runs with the session's prompt and in the mode
\* of the artifact's own type.
C9_RetryKeepsPromptAndType ==
    \A c \in tabs :
        \A i \in DOMAIN tasks[c] :
            LET t == tasks[c][i]
            IN  (t.startedBy = "retry" /\ HasArtifact(sessions[c], t.artifactId)) =>
                    /\ t.prompt = FindSession(sessions[c], t.sessionId).prompt
                    /\ t.mode = ArtifactOf(sessions[c], t.artifactId).type

\* C10: right after an accepted retry the artifact is streaming or thinking with
\* empty html and text, and its id, type and place are unchanged.
C10_RetryResets ==
    [][\A c \in tabs :
         \A p \in Places(sessions[c]) :
            Retry(c, p) =>
                /\ p \in Places(sessions'[c])
                /\ Len(sessions'[c]) = Len(sessions[c])
                /\ LET a == ArtifactAt(sessions[c], p)
                       b == ArtifactAt(sessions'[c], p)
                   IN  /\ b.status \in Generating
                       /\ b.html = Empty
                       /\ b.text = Empty
                       /\ b.id = a.id
                       /\ b.type = a.type]_vars

\* C10 witness: a retry made with Deep Thinking on has just been accepted: its
\* task has not been answered yet and the artifact is thinking, with no content.
C10_Witness ==
    \E c \in tabs :
        \E i \in DOMAIN tasks[c] :
            /\ tasks[c][i].startedBy = "retry"
            /\ tasks[c][i].pc = "call"
            /\ HasArtifact(sessions[c], tasks[c][i].artifactId)
            /\ ArtifactOf(sessions[c], tasks[c][i].artifactId).status = "thinking"
            /\ ArtifactOf(sessions[c], tasks[c][i].artifactId).html = Empty

\* the step is a failure of task i of tab c: the rejection of an awaited call, or
\* the error write that follows the key re-selection
FailureOf(c, i) ==
    \/ \E msg \in TextErrors : TaskFails(c, i, msg)
    \/ KeyReselected(c, i)

\* C4: a failure of a task leaves every artifact but its own as it was, in every
\* session, and leaves every other task of the tab in flight, as it was.
C4_FailureIsolated ==
    [][\A c \in tabs :
         \A i \in DOMAIN tasks[c] :
            FailureOf(c, i) =>
                /\ Places(sessions'[c]) = Places(sessions[c])
                /\ \A p \in Places(sessions[c]) :
                        ArtifactAt(sessions[c], p).id # tasks[c][i].artifactId
                            => ArtifactAt(sessions'[c], p) = ArtifactAt(sessions[c], p)
                /\ \/ tasks'[c] = RemoveAt(tasks[c], i)
                   \/ /\ Len(tasks'[c]) = Len(tasks[c])
                      /\ RemoveAt(tasks'[c], i) = RemoveAt(tasks[c], i)]_vars

\* C4 witness: a task is streaming, with content received, and the loading flag
\* is down, so another task has returned since this one started; every other
\* artifact is in error, so that task failed.
C4_Witness ==
    \E c \in tabs :
        \E i \in DOMAIN tasks[c] :
            /\ ~isLoading[c]
            /\ tasks[c][i].pc = "stream"
            /\ HasArtifact(sessions[c], tasks[c][i].artifactId)
            /\ ArtifactOf(sessions[c], tasks[c][i].artifactId).status = "streaming"
            /\ ArtifactOf(sessions[c], tasks[c][i].artifactId).html # Empty
            /\ Cardinality(ArtifactIds(sessions[c])) > 1
            /\ \A p \in Places(sessions[c]) :
                    ArtifactAt(sessions[c], p).id # tasks[c][i].artifactId
                        => ArtifactAt(sessions[c], p).status = "error"

\* C1: in one tab, at most one generation task is active for an artifact id.
C1_OneTaskPerArtifact ==
    \A c \in tabs :
        \A i, j \in DOMAIN tasks[c] :
            tasks[c][i].artifactId = tasks[c][j].artifactId => i = j

\* the current task of an artifact is the one started last for it
IsCurrent(c, i) == \A j \in TasksFor(c, tasks[c][i].artifactId) : j <= i

\* C2: a step of a task changes the collection only if the task is the current
\* task of its artifact: what a superseded task writes is not applied.
C2_OnlyCurrentTaskWrites ==
    [][\A c \in tabs :
         \A i \in DOMAIN tasks[c] :
            (TabTaskStep(c, i) /\ sessions'[c] # sessions[c]) => IsCurrent(c, i)]_vars

\* the step is the return of task i of tab c
TaskReturns(c, i) == SyncTaskStep(c, i) /\ tasks'[c] = RemoveAt(tasks[c], i)

\* the artifact is on display in tab c with a terminal status
ShownTerminal(ss, artifactId) ==
    HasArtifact(ss, artifactId) /\ StatusOf(ss, artifactId) \in Terminal

SyncIds == 1..(2 * MaxSessions)

\* every task started for the artifact returns, the artifact on display as
\* complete or error
ReachesTerminal(c, artifactId) ==
    (TasksFor(c, artifactId) # {}) ~> (TasksFor(c, artifactId) = {} /\ ShownTerminal(sessions[c], artifactId))

ReturnsTerminal(c) ==
    \A i \in DOMAIN tasks[c] :
        TaskReturns(c, i) => ShownTerminal(sessions'[c], tasks[c][i].artifactId)

StaysTerminal(c) ==
    \A artifactId \in ArtifactIds(sessions[c]) :
        (ShownTerminal(sessions[c], artifactId) /\ ~RetryOf(c, artifactId))
            => ShownTerminal(sessions'[c], artifactId)

\* C6 as stated: in every tab, with other tabs replicating the collection or
\* not, a task returns with its artifact on display as complete or error, the
\* artifact stays on display with a terminal status until it is retried, and
\* every started task returns so.
C6_TerminalInEveryTab ==
    /\ [][\A c \in tabs : ReturnsTerminal(c) /\ StaysTerminal(c)]_vars
    /\ \A c \in SyncTabs : \A artifactId \in SyncIds : ReachesTerminal(c, artifactId)

\* C6, amended: in a tab that has Live Sync off, while another tab replicates
\* its own collection through the shared store, a task returns with its artifact
\* on display as complete or error, the artifact stays on display with a terminal
\* status until it is retried, and every started task returns so.
C6_TerminalWithSyncOff ==
    /\ [][\A c \in tabs : ~isCollabEnabled[c] => (ReturnsTerminal(c) /\ StaysTerminal(c))]_vars
    /\ \A c \in SyncTabs : \A artifactId \in SyncIds :
            ~isCollabEnabled[c] => ReachesTerminal(c, artifactId)

\* C6 witness: a tab with Live Sync off shows a completed artifact, its task
\* returned, while the other tab has Live Sync on and has replicated a session of
\* its own.
C6_Witness ==
    \E c, d \in tabs :
        /\ ~isCollabEnabled[c] /\ isCollabEnabled[d]
        /\ store # NoItem
        /\ Len(sessions[d]) > 0
        /\ \E artifactId \in ArtifactIds(sessions[c]) :
                /\ StatusOf(sessions[c], artifactId) = "complete"
                /\ TasksFor(c, artifactId) = {}

\* the step is the error write of task i of tab c, for a failure with message msg
ErrorWriteOf(c, i, msg) ==
    \/ ~IncludesEntityNotFound(msg) /\ TaskFails(c, i, msg)
    \/ tasks[c][i].err = msg /\ KeyReselected(c, i)

\* the field holds no content: it is not set, undefined or ''
NoContent(v) == v \in {Absent, Undefined, Empty}

\* C11: when a task fails, before the first chunk or in mid-stream, its artifact
\* ends in error with the failure's message as its html, and nothing of what was
\* streamed so far is left in html or in text.
C11_ErrorReplacesContent ==
    [][\A c \in tabs :
         \A i \in DOMAIN tasks[c] :
            \A msg \in TextErrors :
                (ErrorWriteOf(c, i, msg) /\ HasArtifact(sessions[c], tasks[c][i].artifactId)) =>
                    LET b == ArtifactOf(sessions'[c], tasks[c][i].artifactId)
                    IN  /\ b.status = "error"
                        /\ b.html = MessageText(msg)
                        /\ NoContent(b.text)]_vars

\* the concatenation of a sequence of texts
RECURSIVE Concat(_)
Concat(texts) == IF texts = <<>> THEN <<>> ELSE Head(texts) \o Concat(Tail(texts))

\* what an artifact of the task's mode shows of an accumulated text
Shown(mode, text) == IF mode = "ui" THEN RemoveFences(text) ELSE text

\* C12: the text a task has accumulated is the concatenation, in the order of
\* receipt, of the chunk texts its stream has yielded, and right after the k-th
\* chunk is applied the artifact's content is that concatenation of the first k
\* (without the fencing markers in UI mode), whatever the other tasks do.
C12_IncrementsInOrder ==
    /\ [](\A c \in tabs : \A i \in DOMAIN tasks[c] :
            tasks[c][i].text = Concat(tasks[c][i].yielded))
    /\ [][\A c \in tabs :
            \A i \in DOMAIN tasks[c] :
                \A fragment \in StreamFragments, grounding \in TextGroundings :
                    (StreamChunk(c, i, fragment, grounding)
                        /\ HasArtifact(sessions[c], tasks[c][i].artifactId)) =>
                        ArtifactOf(sessions'[c], tasks[c][i].artifactId).html =
                            Shown(tasks[c][i].mode,
                                  Concat(Append(tasks[c][i].yielded, fragment)))]_vars

\* C12 witness: a UI-mode stream has yielded 'a', then an empty chunk, then a
\* fencing marker with 'b', and its artifact shows 'ab', while a second task of
\* the tab streams content of its own into another artifact.
C12_Witness ==
    \E c \in tabs :
        \E i, j \in DOMAIN tasks[c] :
            /\ tasks[c][i].yielded = <<(<<"a">>), <<>>, (<<"[fence-html]", "b">>)>>
            /\ HasArtifact(sessions[c], tasks[c][i].artifactId)
            /\ ArtifactOf(sessions[c], tasks[c][i].artifactId).html = <<"a", "b">>
            /\ tasks[c][j].artifactId # tasks[c][i].artifactId
            /\ tasks[c][j].text # Empty /\ tasks[c][j].text # tasks[c][i].text

\* a text without its leading whitespace, and without its surrounding whitespace
RECURSIVE TrimStart(_)
TrimStart(text) ==
    IF text # <<>> /\ Head(text) = Newline THEN TrimStart(Tail(text)) ELSE text

RECURSIVE TrimEnd(_)
TrimEnd(text) ==
    IF text # <<>> /\ text[Len(text)] = Newline
    THEN TrimEnd(SubSeq(text, 1, Len(text) - 1))
    ELSE text

TrimText(text) == TrimEnd(TrimStart(text))

\* C13: when a UI-mode stream completes, the artifact's html is the accumulated
\* text without the fencing markers and without surrounding whitespace: for
\* fence, newline, <div/>, newline, fence it is exactly <div/>.
C13_FencesStrippedAndTrimmed ==
    [][\A c \in tabs :
         \A i \in DOMAIN tasks[c] :
            (StreamEnd(c, i) /\ tasks[c][i].mode = "ui"
                /\ HasArtifact(sessions[c], tasks[c][i].artifactId)) =>
                ArtifactOf(sessions'[c], tasks[c][i].artifactId).html =
                    TrimText(RemoveFences(tasks[c][i].text))]_vars

\* C14: applying a chunk leaves the artifact's status as it was, thinking or
\* streaming, also when the chunk carries no text.
C14_ChunkKeepsStatus ==
    [][\A c \in tabs :
         \A i \in DOMAIN tasks[c] :
            \A fragment \in FencedFragments, grounding \in TextGroundings :
                (StreamChunk(c, i, fragment, grounding)
                    /\ HasArtifact(sessions[c], tasks[c][i].artifactId)) =>
                    StatusOf(sessions'[c], tasks[c][i].artifactId) =
                        StatusOf(sessions[c], tasks[c][i].artifactId)]_vars

\* C15 as stated: while Live Sync is on in a tab, after every change of the
\* tab's collection, a change that empties it included, the stored item is the
\* whole collection of the tab, serialized, whatever was stored before.
C15_StoreFollowsCollection ==
    [][\A c \in tabs :
         (isCollabEnabled[c] /\ isCollabEnabled'[c] /\ sessions'[c] # sessions[c]) =>
            store' = Item(Serialize(sessions'[c]))]_vars

\* C15, amended: while Live Sync is on in a tab, after every change of the tab's
\* collection that leaves it non-empty the stored item is the whole collection
\* of the tab, serialized, whatever was stored before; after the change that
\* empties it (Clear Global Sessions) nothing is stored.
C15_StoreFollowsNonEmpty ==
    [][\A c \in tabs :
         (isCollabEnabled[c] /\ isCollabEnabled'[c] /\ sessions'[c] # sessions[c]) =>
            store' = IF sessions'[c] # <<>> THEN Item(Serialize(sessions'[c])) ELSE NoItem]_vars

\* C15 witness: two tabs with Live Sync on hold different sessions, and what is
\* stored is the collection of the one that wrote last, without the other's.
C15_Witness ==
    \E c, d \in tabs :
        /\ isCollabEnabled[c] /\ isCollabEnabled[d]
        /\ sessions[c] # <<>> /\ sessions[d] # <<>>
        /\ \A i \in DOMAIN sessions[c], j \in DOMAIN sessions[d] : sessions[c][i].id # sessions[d][j].id
        /\ store = Item(Serialize(sessions[c]))

\* C16: when a tab with Live Sync on handles a storage event of the stored
\* collection, its collection becomes the deserialized value the event carries:
\* nothing else is left of what it held.
C16_NotifiedValueReplaces ==
    [][\A c \in tabs :
         (HandleStorageChange(c) /\ isCollabEnabled[c]) =>
            sessions'[c] = Deserialize(Head(inbox[c]))]_vars

\* what is stored is the collection of tab c (nothing, for an empty one)
StoreMatches(c) ==
    store = IF sessions[c] = <<>> THEN NoItem ELSE Item(Serialize(sessions[c]))

\* no storage event is waiting in a tab with Live Sync on, and every such tab
\* holds what is stored
Settled ==
    \A c \in tabs : isCollabEnabled[c] => (inbox[c] = <<>> /\ StoreMatches(c))

\* a storage event waits in a tab whose handler cannot run: handling it would
\* queue more events than MaxInbox
Blocked == \E c \in tabs : inbox[c] # <<>> /\ ~ENABLED HandleStorageChange(c)

\* C17: with Live Sync on in both tabs, once the tabs make no further change of
\* their own, the delivery of the storage events comes to an end: from some
\* point on no event is waiting and both tabs hold what is stored. A run in
\* which an event is held up by the bound on the queues is left aside.
C17_EventuallySettled ==
    (\A c \in SyncTabs : isCollabEnabled[c]) => (<>[]Settled \/ <>Blocked)

\* the active users tab c shows: the presence indicator is rendered while
\* isCollabEnabled
ShownUsers(c) == IF isCollabEnabled[c] THEN activeUsers[c] ELSE {}

\* nothing of tab x is left in the presence map or on display in an open tab
Evicted(x) ==
    /\ x \notin DOMAIN presence
    /\ \A c \in tabs : x \notin ShownUsers(c)

HeartbeatRuns(c) ==
    \/ Heartbeat(c)
    \/ ~isCollabEnabled[c] /\ ToggleCollab(c)

\* the entries of the map, tab c's aside, that are not older than the window
NotOlder(map, c, t) == {id \in DOMAIN map \ {c} : t - map[id] <= StaleSeconds}

\* C19: after a heartbeat of a tab at time now the presence map holds the tab
\* with the timestamp now and, of the other entries, exactly those not older
\* than the 10 s window, each with its timestamp; an entry aged exactly 10 s is
\* not older than the window.
C19_HeartbeatKeepsNotOlder ==
    [][\A c \in tabs : HeartbeatRuns(c) =>
            presence' = [id \in NotOlder(presence, c, now) \cup {c} |->
                            IF id = c THEN now ELSE presence[id]]]_vars

\* tab c has Live Sync off before and after the step
StaysOff(c) == ~isCollabEnabled[c] /\ ~isCollabEnabled'[c]

\* C18: in every step that starts and ends with a tab's Live Sync off, the tab
\* runs no heartbeat, its id is not in the presence map, a change of its
\* session collection leaves the shared store and the notifications to the
\* other tabs as they are, and a notification it is handed leaves its session
\* collection as it is.
C18_OffIsLocal ==
    [][\A c \in tabs : StaysOff(c) =>
            /\ ~Heartbeat(c)
            /\ c \notin DOMAIN presence
            /\ c \notin DOMAIN presence'
            /\ sessions'[c] # sessions[c] => store' = store /\ inbox' = inbox
            /\ HandleStorageChange(c) => sessions'[c] = sessions[c]]_vars

\* C18 witness: tab 2 has switched Live Sync off after it had published (tab 1
\* still lists it), its collection has changed since and differs from what is
\* stored, and a notification of tab 1 is waiting for it.
C18_Witness ==
    /\ ~isCollabEnabled[2]
    /\ isCollabEnabled[1]
    /\ 2 \in activeUsers[1]
    /\ 2 \notin DOMAIN presence
    /\ store # NoItem
    /\ Len(sessions[2]) > 0
    /\ Serialize(sessions[2]) # store.value
    /\ inbox[2] # <<>>

\* a step in which a suspended onmessage call schedules its buffer
Schedules == decoding # <<>> /\ DecodeDone

\* C21: a buffer is scheduled to start at max(play head, now), both as they
\* are at the moment of scheduling, so not before now, and the play head is
\* then the start plus the buffer's duration.
C21_StartsAtHeadOrNow ==
    [][Schedules =>
        LET call == Head(decoding)
            t == CurrentTime(call.ctx)
            node == nodes'[Len(nodes')]
        IN  /\ node.when = Max(nextStartTime, t)
            /\ node.when >= t
            /\ ~call.interrupted => nextStartTime' = node.when + node.duration]_vars

\* the audio time at which node n begins to play (a start time that has passed
\* starts the buffer at once) and at which it has played to its end
Begins(n) == contexts[nodes[n].ctx] + Max(nodes[n].when, nodes[n].called)
Ends(n) == Begins(n) + nodes[n].duration

\* C22: when an interruption signal is handled the pending set is emptied, its
\* buffers are stopped and the play head is zero; and no buffer of a chunk
\* received before a handled interruption plays after it: it is stopped or had
\* played to its end when the signal was handled.
C22_InterruptionDiscards ==
    /\ [][interrupts' # interrupts =>
            /\ sources' = {}
            /\ nextStartTime' = 0
            /\ \A n \in sources : nodes'[n].stopped]_vars
    /\ [](\A k \in DOMAIN interrupts, n \in DOMAIN nodes :
            nodes[n].msg < interrupts[k].msg =>
                nodes[n].stopped \/ Ends(n) <= interrupts[k].at)

\* C23 as stated: the start times passed to source.start never decrease over
\* the whole sequence of buffers of a session, interruptions included.
C23_StartTimesMonotone ==
    \A i, j \in DOMAIN nodes : i < j => nodes[i].when <= nodes[j].when

\* C23: the start times passed to source.start never decrease from one handled
\* interruption to the next.
C23_MonotoneBetweenInterruptions ==
    \A i, j \in DOMAIN nodes :
        (i < j /\ nodes[i].epoch = nodes[j].epoch) => nodes[i].when <= nodes[j].when

\* C23 witness: two buffers scheduled one after the other, an interruption, and
\* a buffer scheduled after it to start earlier than the second.
C23_Witness ==
    /\ Len(nodes) = 3
    /\ nodes[1].epoch = 0 /\ nodes[2].epoch = 0 /\ nodes[3].epoch = 1
    /\ nodes[1].when < nodes[2].when
    /\ nodes[3].when < nodes[2].when

\* a duplex session that is connecting or active
Connected(i) == lives[i].pc \in {"media", "connecting", "open"}

\* C24: at most one duplex session is connecting or active, and while one is,
\* no step makes a connection, a capture pipeline or a playback context.
C24_OneLive ==
    /\ [](Cardinality({i \in DOMAIN lives : Connected(i)}) <= 1)
    /\ [][(\E i \in DOMAIN lives : Connected(i)) =>
            /\ Len(lives') = Len(lives)
            /\ contexts' = contexts]_vars

\* C24 witness: a second session is open, started after the first had closed.
C24_Witness ==
    /\ Len(lives) = 2
    /\ lives[1].pc = "closed"
    /\ lives[2].pc = "open"
    /\ isLiveActive

\* C25: once a duplex session has closed its capture takes no frame and sends
\* none, and the step that closes it empties the pending set.
C25_CloseReleases ==
    [][\A i \in DOMAIN lives :
        /\ lives[i].pc = "closed" =>
            /\ lives'[i].captured = lives[i].captured
            /\ lives'[i].sent = lives[i].sent
        /\ (lives[i].pc # "closed" /\ lives'[i].pc = "closed") => sources' = {}]_vars

\* C26: the frames sent and the frames whose send waits for the connection are
\* the frames captured, each once, in capture order.
C26_SentInCaptureOrder ==
    \A i \in DOMAIN lives :
        lives[i].sent \o lives[i].waiting = [k \in 1..lives[i].captured |-> k]

\* C26 witness: every frame is sent, two of them captured before the connection
\* promise resolved.
C26_Witness ==
    \E i \in DOMAIN lives :
        /\ lives[i].early >= 2
        /\ Len(lives[i].sent) = MaxFrames

\* the (id, type) pairs of a session's artifacts, in order
IdTypes(session) ==
    [j \in DOMAIN session.artifacts |-> <<session.artifacts[j].id, session.artifacts[j].type>>]

\* C27: no step of the orchestrator (increment, completion, failure, retry;
\* the submit of another prompt too) removes, adds or reorders the artifacts of
\* an existing session or changes an artifact's id or type: every session that
\* exists keeps its place, its id and its sequence of (id, type) pairs.
C27_ArtifactsKeepIdAndType ==
    [][\A c \in tabs :
        \A k \in DOMAIN sessions[c] :
            /\ k \in DOMAIN sessions'[c]
            /\ sessions'[c][k].id = sessions[c][k].id
            /\ IdTypes(sessions'[c][k]) = IdTypes(sessions[c][k])]_vars

\* C27 witness: an artifact that failed is retried in another mode than the one
\* it was created in, and the retry's stream has written an increment to it.
C27_Witness ==
    \E c \in tabs :
        \E i \in DOMAIN tasks[c] :
            /\ tasks[c][i].startedBy = "retry"
            /\ tasks[c][i].yielded # <<>>
            /\ HasArtifact(sessions[c], tasks[c][i].artifactId)
            /\ ArtifactOf(sessions[c], tasks[c][i].artifactId).type # tasks[c][i].mode
            /\ Len(sessions[c]) = 2

\* the value a read of a field gives: undefined for a field the object lacks
FieldValue(v) == IF v = Absent THEN Undefined ELSE v

\* two artifacts with the same value in every field
SameArtifact(a, b) ==
    /\ a.id = b.id /\ a.styleName = b.styleName /\ a.type = b.type /\ a.status = b.status
    /\ FieldValue(a.html) = FieldValue(b.html)
    /\ FieldValue(a.text) = FieldValue(b.text)
    /\ FieldValue(a.imageUrl) = FieldValue(b.imageUrl)
    /\ FieldValue(a.videoUrl) = FieldValue(b.videoUrl)
    /\ FieldValue(a.groundingLinks) = FieldValue(b.groundingLinks)

\* two collections with the same sessions in the same order, each with the same
\* id, prompt and artifacts
SameCollection(ss, tt) ==
    /\ Len(ss) = Len(tt)
    /\ \A k \in DOMAIN ss :
        /\ ss[k].id = tt[k].id
        /\ ss[k].prompt = tt[k].prompt
        /\ Len(ss[k].artifacts) = Len(tt[k].artifacts)
        /\ \A j \in DOMAIN ss[k].artifacts : SameArtifact(ss[k].artifacts[j], tt[k].artifacts[j])

\* JSON.parse(JSON.stringify(ss))
RoundTrip(ss) == Deserialize(Item(Serialize(ss)))

PatternGroups ==
    << <<"Billing or API Key Issue", {"requested entity was not found", "404"}>>,
       <<"Content Blocked", {"safety", "blocked", "finish_reason_safety"}>>,
       <<"Rate Limit Reached", {"quota", "exhausted", "429"}>>,
       <<"Network Connectivity", {"network", "fetch", "connection"}>>,
       <<"Invalid Request Parameter", {"invalid", "argument", "400"}>> >>

Matching(msg) == {g \in DOMAIN PatternGroups : \E p \in PatternGroups[g][2] : Includes(msg, p)}

\* the category of the first matching group, the unknown one when none matches
FirstMatching(msg) ==
    IF Matching(msg) = {} THEN "Unknown System Error"
    ELSE PatternGroups[CHOOSE g \in Matching(msg) : \A h \in Matching(msg) : g <= h][1]

\* the category a suggestion list of errorContext stands for
ContextCategory(suggestions) ==
    CASE suggestions[1] = "Ensure you have selected a valid paid API key for this model."
            -> "Billing or API Key Issue"
      [] suggestions[1] = "Try rephrasing your prompt to be more neutral." -> "Content Blocked"
      [] suggestions[1] = "You've reached your rate limit. Wait 60 seconds and try again."
            -> "Rate Limit Reached"
      [] suggestions[1] = "Check that the uploaded image is a valid PNG or JPEG." -> "Format"
      [] OTHER -> "Unknown System Error"

\* the badge of a failed card is the category of the first matching group
C29_AnalysisFirstMatching ==
    card.status = "error" => analysis.category = FirstMatching(Msg(card))

\* C29: a failed artifact's diagnostic is put in exactly one of the six
\* categories, that of the first pattern group matching it in the fixed
\* order, and in the unknown one exactly when no pattern matches; this
\* holds of the analysis and of the suggestion list of the card.
C29_ClassifiedByFirstMatch ==
    card.status = "error" =>
        /\ analysis.category = FirstMatching(Msg(card))
        /\ ContextCategory(analysis.context) = FirstMatching(Msg(card))

\* C30: no two tabs sharing the store have a generation task active for the
\* same artifact id at the same time.
C30_OneTaskAcrossTabs ==
    \A c, d \in tabs :
        \A i \in DOMAIN tasks[c], j \in DOMAIN tasks[d] :
            tasks[c][i].artifactId = tasks[d][j].artifactId => c = d

\* C31: a task that fails with 'Requested entity was not found.' leaves its
\* artifact's status as it is and awaits the key selection; when the selection
\* has returned or thrown, the task returns with the artifact in error and the
\* loading flag down. A task that fails with another message returns at once,
\* without the key selection, with the artifact in error and the flag down.
C31_KeySelectionBeforeError ==
    [][\A c \in tabs :
         \A i \in DOMAIN tasks[c] :
            LET a == tasks[c][i].artifactId IN
            /\ TaskFails(c, i, EntityNotFound) =>
                    /\ StatusOf(sessions'[c], a) = StatusOf(sessions[c], a)
                    /\ Len(tasks'[c]) = Len(tasks[c])
                    /\ tasks'[c][i].pc = "reselect"
            /\ KeyReselected(c, i) =>
                    /\ tasks[c][i].err = EntityNotFound
                    /\ tasks'[c] = RemoveAt(tasks[c], i)
                    /\ StatusOf(sessions'[c], a) = "error"
                    /\ ~isLoading'[c]
            /\ \A msg \in TextErrors \ {EntityNotFound} :
                    TaskFails(c, i, msg) =>
                        /\ tasks'[c] = RemoveAt(tasks[c], i)
                        /\ StatusOf(sessions'[c], a) = "error"
                        /\ ~isLoading'[c]]_vars

\* C31 witness: the key selection has returned and the task with it: the
\* artifact is in error with the 'entity not found' message, no task is left
\* and the loading flag is down.
C31_Witness ==
    \E c \in tabs :
        /\ tasks[c] = <<>>
        /\ ~isLoading[c]
        /\ \E p \in Places(sessions[c]) :
            /\ ArtifactAt(sessions[c], p).status = "error"
            /\ ArtifactAt(sessions[c], p).html = MessageText(EntityNotFound)

\* the artifact is shown in a terminal status in the collection
TerminalIn(ss, artifactId) ==
    HasArtifact(ss, artifactId) /\ StatusOf(ss, artifactId) \in Terminal

\* the artifact is shown as being generated in the collection
GeneratingIn(ss, artifactId) ==
    HasArtifact(ss, artifactId) /\ StatusOf(ss, artifactId) \in Generating

\* C32: with Live Sync on in both tabs and no retry, an artifact shown as
\* complete or in error in a tab is not shown as streaming or thinking in
\* that tab after any step, and an artifact stored as complete or in error is
\* not stored as streaming or thinking after any step.
C32_TerminalNotReverted ==
    [][(\A c \in tabs : isCollabEnabled[c]) =>
        \A a \in SyncIds :
            /\ \A c \in tabs :
                TerminalIn(sessions[c], a) => ~GeneratingIn(sessions'[c], a)
            /\ (store.stored /\ TerminalIn(Deserialize(store), a))
                => ~(store'.stored /\ GeneratingIn(Deserialize(store'), a))]_vars

\* a generation task or a transcription of the tab is in flight
InFlight(c) == tasks[c] # <<>> \/ transcribing[c] > 0

\* C33: the loading flag of a tab is up exactly when a generation task or a
\* transcription of the tab is in flight.
C33_LoadingIffInFlight ==
    \A c \in tabs : isLoading[c] <=> InFlight(c)

\* C34: once every operation of a tab that raised the loading flag has ended,
\* by returning or by failing, the flag is down, so that submit and retry are
\* possible again.
C34_FlagDownWhenAllEnded ==
    \A c \in tabs : ~InFlight(c) => ~isLoading[c]

\* the start of the live session failed before its channel opened: the
\* microphone was refused, or the connection closed while connecting
FailedStart(i) ==
    \/ lives[i].pc = "denied"
    \/ lives[i].pc = "closed" /\ ~lives[i].capturing

\* C35: when the start made last has failed before the channel opened, the
\* live state is idle again, so that the next start passes the guard.
C35_IdleAfterFailedStart ==
    (lives # <<>> /\ FailedStart(Len(lives))) => ~LiveReturnsEarly

\* C36: a live session started after an earlier one has closed starts with the
\* play head at zero and with no pending buffer source.
C36_FreshScheduleOnRestart ==
    [][(/\ Len(lives') = Len(lives) + 1
        /\ \E i \in DOMAIN lives : lives[i].pc = "closed")
            => (nextStartTime' = 0 /\ sources' = {})]_vars

\* C37: with Live Sync on in every tab, when the stored collection has been
\* removed and a tab has handled every storage event sent to it, the tab's
\* collection is empty.
C37_ClearPropagates ==
    (\A d \in tabs : isCollabEnabled[d]) =>
        \A c \in tabs : (~store.stored /\ inbox[c] = <<>>) => sessions[c] = <<>>

\* tab c switches Live Sync on while a collection is stored
EnablesOnStored(c) == ~isCollabEnabled[c] /\ isCollabEnabled'[c] /\ store.stored

\* a step of a task of tab c whose session is not in the tab's collection
DiscardedTaskStep(c) ==
    \E i \in DOMAIN tasks[c] :
        /\ ~HasSession(sessions[c], tasks[c][i].sessionId)
        /\ OffTaskStep(c, i)

\* C38: a tab that switches Live Sync on while a collection is stored takes
\* the stored collection as its own, and the store is not set to the tab's
\* local collection: what is stored stays and no other tab is notified of a
\* change; a step of a task whose session was discarded leaves the collection
\* as it is.
C38_EnableAdoptsStored ==
    [][\A c \in tabs :
        /\ EnablesOnStored(c) =>
            /\ sessions'[c] = Deserialize(store)
            /\ store' = store
            /\ \A d \in tabs \ {c} : inbox'[d] = inbox[d]
        /\ DiscardedTaskStep(c) => sessions'[c] = sessions[c]]_vars

====
